---- MODULE Spec2Model ----
(***************************************************************************)
(* State-machine model of the RaiWave audio enhancer view                  *)
(* (src/views/Enhancer.tsx), its cloud library service and the render /    *)
(* analysis engine it calls.                                               *)
(*                                                                         *)
(* Numeric controls are fixed-point: every ParameterSet value is the       *)
(* source value multiplied by one hundred (stretch 1.0 is 100, pitch 0.7   *)
(* is 70, delayTime 0.01 is 1).                                            *)
(*                                                                         *)
(* A React handler reads the state captured by the render in which it was  *)
(* created.  A synchronous handler therefore reads the current state; the  *)
(* continuation of an async handler (the code after an await) still reads  *)
(* the state captured when the handler was called.  Every async call is a  *)
(* record holding what its closure captured.                               *)
(*                                                                         *)
(* A nullable value is a sequence: << >> is null, <<v>> holds v.           *)
(***************************************************************************)
EXTENDS Integers, Sequences, FiniteSets, TLC

\* ------------------------------------------------------------------ bounds
MaxFiles == 1
MaxUrls == 3
MaxHistory == 3
MaxEnhance == 1
MaxDecodes == 1
BlockLen == 2

\* --------------------------------------------------------------- utilities
Null == << >>
Some(v) == <<v>>
Val(o) == o[1]
Min(a, b) == IF a < b THEN a ELSE b
Max(a, b) == IF a > b THEN a ELSE b
IsNonDecreasing(s) == \A i \in 1..(Len(s) - 1) : s[i] <= s[i + 1]
CountOf(s, v) == Cardinality({i \in 1..Len(s) : s[i] = v})

\* ------------------------------------------------------------ ParameterSet
Keys ==
    {"pitch", "stretch", "denoise", "deess", "reverb", "reverbDecay",
     "masterReverb", "stereo", "drive", "shift", "delay", "delayTime",
     "delayFeedback", "eqBass", "eqMid", "eqAir", "master", "vibratoDepth",
     "vibratoSpeed", "ringMod", "backingVocals"}

INITIAL_PARAMS ==
    [pitch |-> 0, stretch |-> 100, denoise |-> 10, deess |-> 20,
     reverb |-> 10, reverbDecay |-> 150, masterReverb |-> 100, stereo |-> 10,
     drive |-> 0, shift |-> 0, delay |-> 0, delayTime |-> 30,
     delayFeedback |-> 30, eqBass |-> 0, eqMid |-> 0, eqAir |-> 0,
     master |-> 0, vibratoDepth |-> 0, vibratoSpeed |-> 0, ringMod |-> 0,
     backingVocals |-> 0]

\* The [min, max] the parameter table declares for each bounded control.
\* The EQ gains, master, vibratoSpeed and shift have no numeric domain.
ParamDomain ==
    [pitch |-> <<-1200, 1200>>, stretch |-> <<50, 150>>,
     denoise |-> <<0, 100>>, deess |-> <<0, 100>>, reverb |-> <<0, 100>>,
     reverbDecay |-> <<50, 500>>, masterReverb |-> <<0, 100>>,
     stereo |-> <<0, 100>>, drive |-> <<0, 100>>, delay |-> <<0, 100>>,
     delayTime |-> <<1, 100>>, delayFeedback |-> <<0, 100>>,
     vibratoDepth |-> <<0, 1000>>, ringMod |-> <<0, 100>>,
     backingVocals |-> <<0, 100>>]

InDomain(p) ==
    \A k \in DOMAIN ParamDomain :
        ParamDomain[k][1] <= p[k] /\ p[k] <= ParamDomain[k][2]

\* min / max of every SliderControl the view renders.
SliderBounds ==
    [backingVocals |-> <<0, 100>>, pitch |-> <<-1200, 1200>>,
     stretch |-> <<50, 150>>, ringMod |-> <<0, 100>>,
     vibratoDepth |-> <<0, 1000>>, reverb |-> <<0, 100>>,
     reverbDecay |-> <<50, 500>>, delay |-> <<0, 100>>,
     delayTime |-> <<1, 100>>, masterReverb |-> <<0, 100>>,
     drive |-> <<0, 100>>]

\* The values a slider is moved to: its two ends.
SliderValues(k) == {SliderBounds[k][1], SliderBounds[k][2]}

PresetNames ==
    {"Child", "Giant", "Robot", "Alien", "Chorus", "Nightcore", "Slowed",
     "CopyrightBypass"}

PresetValuesNoFxReset(p, name) ==
    CASE name = "Child" ->
            [p EXCEPT !.pitch = 600, !.stretch = 100, !.eqBass = -500,
                      !.eqAir = 500]
      [] name = "Giant" ->
            [p EXCEPT !.pitch = -400, !.stretch = 100, !.eqBass = 800,
                      !.eqAir = -500, !.drive = 20]
      [] name = "Robot" ->
            [p EXCEPT !.pitch = 0, !.ringMod = 60, !.drive = 40]
      [] name = "Alien" ->
            [p EXCEPT !.pitch = 0, !.vibratoDepth = 800,
                      !.vibratoSpeed = 1000, !.delay = 20]
      [] name = "Chorus" ->
            [p EXCEPT !.backingVocals = 60, !.reverb = 30, !.stereo = 80]
      [] name = "Nightcore" ->
            [p EXCEPT !.pitch = 300, !.stretch = 88, !.eqAir = 300,
                      !.denoise = 0]
      [] name = "Slowed" ->
            [p EXCEPT !.pitch = -300, !.stretch = 115, !.reverb = 50,
                      !.reverbDecay = 250, !.eqBass = 400]
      [] name = "CopyrightBypass" ->
            [p EXCEPT !.pitch = 70, !.stretch = 97, !.drive = 15,
                      !.eqMid = 150, !.stereo = 60]
      [] OTHER -> p

\* applyPreset with the Alien vibrato depth mistyped as 80.0
PresetParamsTypo(p, name) ==
    IF name = "Alien"
    THEN [p EXCEPT !.ringMod = 0, !.backingVocals = 0, !.pitch = 0,
                   !.vibratoDepth = 8000, !.vibratoSpeed = 1000, !.delay = 20]
    ELSE PresetValuesNoFxReset(
            [p EXCEPT !.ringMod = 0, !.vibratoDepth = 0, !.backingVocals = 0],
            name)

\* applyPreset with a Robot preset that also sets a frequency shift.
PresetParamsShift(p, name) ==
    [PresetValuesNoFxReset(
        [p EXCEPT !.ringMod = 0, !.vibratoDepth = 0, !.backingVocals = 0],
        name)
     EXCEPT !.shift = IF name = "Robot" THEN 50 ELSE @]

\* The ParameterSet applyPreset builds from the current one.
PresetParams(p, name) ==
    PresetValuesNoFxReset(
        [p EXCEPT !.ringMod = 0, !.vibratoDepth = 0, !.backingVocals = 0],
        name)

\* { ...params, [key]: value }
WithParam(p, key, value) == [p EXCEPT ![key] = value]

\* push(newParams) on the whole history, the slice forgotten.
NewHistoryKeepsTail(hist, idx, newParams) == Append(hist, newParams)

\* history.slice(0, historyIndex + 1) followed by push(newParams).
\* History indexes are the source's, 0-based: entry i is hist[i + 1].
NewHistory(hist, idx, newParams) ==
    Append(SubSeq(hist, 1, Min(idx + 1, Len(hist))), newParams)

\* Object.assign-style overlay { ...p, ...s }: s is a function on some keys.
Merge(p, s) == [k \in Keys |-> IF k \in DOMAIN s THEN s[k] ELSE p[k]]

\* ------------------------------------------------------- files and buffers
\* Files the user can pick are 1..MaxFiles; a finished recording is the
\* file after them.  decodeAudio(f) yields the buffer with the file's id.
Files == 1..MaxFiles
RecFile == MaxFiles + 1
\* Frame count of the audio in file f: uploads hold four frames or more, a
\* recording stopped at once holds none.
Frames(f) == 4 * (RecFile - f)

\* ------------------------------------------------ render / analysis engine
\* A pipeline entry that validates nothing.
ClampNothing(p) == p

\* Parameter validation at pipeline entry: every bounded control is clamped
\* into its domain.
Clamp(p) ==
    [k \in Keys |->
        IF k \in DOMAIN ParamDomain
        THEN Max(ParamDomain[k][1], Min(ParamDomain[k][2], p[k]))
        ELSE p[k]]

\* Number of fixed-size blocks the pipeline folds over.
NumBlocks(buf) == (Frames(buf) + BlockLen - 1) \div BlockLen

\* Percentage reported after block k of n; the encode step reports 100.
BlockPercent(k, n) == (k * 100) \div (n + 1)

\* The effect stages of the pipeline, in the order they are applied.
StageOrder ==
    <<"noiseReduction", "deEssing", "pitchTimeStretch", "eq", "drive",
      "vibrato", "ringModulation", "backingVocals", "delay", "reverb",
      "stereoWidening", "masterReverbSend", "masterGain">>

\* A pipeline that runs the equaliser before the pitch shifter whenever the
\* pitch is changed.
StagesAppliedEqFirst(p) ==
    IF p.pitch = 0
    THEN StageOrder
    ELSE <<"noiseReduction", "deEssing", "eq", "pitchTimeStretch", "drive",
           "vibrato", "ringModulation", "backingVocals", "delay", "reverb",
           "stereoWidening", "masterReverbSend", "masterGain">>

\* The stages every block of a call with ParameterSet p passes through, in
\* the order it passes through them: the order is fixed, a stage at its
\* neutral value is still in the chain.
StagesApplied(p) == StageOrder

\* The blob a render of buf with ParameterSet p produces when it runs alone.
RenderAlone(buf, p) ==
    [src |-> buf, params |-> Clamp(p), blocks |-> NumBlocks(buf),
     chain |-> StagesApplied(Clamp(p))]

\* The stage passes its input through unchanged under ParameterSet p.
StageIsIdentity(stage, p) ==
    CASE stage = "noiseReduction" -> p.denoise = 0
      [] stage = "deEssing" -> p.deess = 0
      [] stage = "pitchTimeStretch" -> p.pitch = 0 /\ p.stretch = 100
      [] stage = "eq" -> p.eqBass = 0 /\ p.eqMid = 0 /\ p.eqAir = 0
      [] stage = "drive" -> p.drive = 0
      [] stage = "vibrato" -> p.vibratoDepth = 0
      [] stage = "ringModulation" -> p.ringMod = 0
      [] stage = "backingVocals" -> p.backingVocals = 0
      [] stage = "delay" -> p.delay = 0
      [] stage = "reverb" -> p.reverb = 0
      [] stage = "stereoWidening" -> p.stereo = 0
      [] stage = "masterReverbSend" -> p.masterReverb = 0
      [] stage = "masterGain" -> p.master = 0

\* Frame count of a rendered blob: round(input frameCount x stretch).
OutputFrames(out) == (Frames(out.src) * out.params.stretch + 50) \div 100

\* The samples of a rendered blob are those of its source: every stage
\* passed them through.
SameSamples(out) ==
    \A i \in DOMAIN StageOrder : StageIsIdentity(StageOrder[i], out.params)

\* analyze(buffer): a partial ParameterSet, empty for a zero-frame buffer,
\* monotonic in the measured quantities and inside the declared domains.
Analyze(buf) ==
    IF Frames(buf) = 0
    THEN [k \in {} |-> 0]
    ELSE [k \in {"denoise", "deess", "stereo", "master"} |->
            CASE k = "denoise" -> Min(100, 20 + 10 * Frames(buf))
              [] k = "deess" -> 35
              [] k = "stereo" -> 25
              [] OTHER -> 300]

\* ------------------------------------------------------------------- state
VARIABLES
    file,           \* 0 (null) or the id of the selected File
    sourceBuffer,   \* 0 (null) or the id of the file the buffer was decoded from
    originalUrl,    \* 0 (null) or an index into urlStore
    processedUrl,   \* 0 (null) or an index into urlStore
    compareMode,    \* "original" | "processed"
    processedBlob,  \* Null or <<blob>>
    isProcessing, isAnalyzing, isPreviewing, isRecording,
    progress,
    params, history, historyIndex,
    savedPresets,   \* sequence of [name, params]
    urlStore,       \* object URLs created so far: [file, blob, revoked]
    recorder,       \* Null or <<closure of mr.onstop>>
    decodes,        \* decodeAudio calls in flight
    enhances,       \* handleAutoEnhance calls in flight
    renders,        \* [final, preview]: Null or <<the render call in flight>>
    effects,        \* external calls and alerts made by the last step
    progLog,        \* values delivered to onProgress by the latest final render
    lastRender,     \* Null or <<the render call that ended most recently>>
    rendered,       \* every render that resolved: its arguments and its output
    isUploading,
    saves,          \* handleSaveToCloud calls in flight
    saveCalls,      \* handleSaveToCloud calls made so far
    memoryStore,    \* cloudService's in-memory fallback: sequence of tracks
    idb,            \* the 'tracks' object store of IndexedDB: set of tracks
    now,            \* the clock read by new Date(), in milliseconds
    posts, loading, \* the library view's state
    loads,          \* loadTracks calls in flight
    loadCalls,      \* loadTracks calls made so far
    savedTracks,    \* the tracks whose saveTrackToCloud call resolved
    lastSave,       \* Null or <<the saveTrackToCloud call that settled last>>
    lastRead        \* Null or <<the getCloudTracks call that settled last>>

cloudVars ==
    <<isUploading, saves, saveCalls, memoryStore, idb, now, posts, loading,
      loads, loadCalls, savedTracks, lastSave, lastRead>>

vars ==
    <<file, sourceBuffer, originalUrl, processedUrl, compareMode,
      processedBlob, isProcessing, isAnalyzing, isPreviewing, isRecording,
      progress, params, history, historyIndex, savedPresets, urlStore,
      recorder, decodes, enhances, renders, effects, progLog, lastRender,
      rendered, cloudVars>>

fileVars == <<file, sourceBuffer>>
urlVars == <<originalUrl, processedUrl, compareMode, urlStore>>
histVars == <<params, history, historyIndex>>
flagVars == <<isProcessing, isAnalyzing, isPreviewing, isRecording, progress>>
asyncVars == <<recorder, decodes, enhances, renders>>
renderGhost == <<progLog, lastRender, rendered>>

\* What localStorage may hold under 'raiwave_presets' when the view mounts:
\* nothing, or a preset written outside the sliders' bounds.
StoredPreset ==
    [name |-> "stored",
     params |-> [INITIAL_PARAMS EXCEPT !.pitch = 2400, !.delayTime = 0]]
StoredPresetLists == {<< >>, <<StoredPreset>>}

Init ==
    /\ file = 0 /\ sourceBuffer = 0
    /\ originalUrl = 0 /\ processedUrl = 0
    /\ compareMode = "original"
    /\ processedBlob = Null
    /\ isProcessing = FALSE /\ isAnalyzing = FALSE
    /\ isPreviewing = FALSE /\ isRecording = FALSE
    /\ progress = 0
    /\ params = INITIAL_PARAMS
    /\ history = <<INITIAL_PARAMS>>
    /\ historyIndex = 0
    /\ savedPresets \in StoredPresetLists
    /\ urlStore = << >>
    /\ recorder = Null
    /\ decodes = {} /\ enhances = {}
    /\ renders = [final |-> Null, preview |-> Null]
    /\ effects = << >>
    /\ progLog = << >>
    /\ lastRender = Null
    /\ rendered = {}
    /\ isUploading = FALSE
    /\ saves = {} /\ saveCalls = 0
    /\ memoryStore = << >> /\ idb = {}
    /\ now = 0
    /\ posts = << >> /\ loading = TRUE
    /\ loads = {} /\ loadCalls = 0
    /\ savedTracks = {}
    /\ lastSave = Null /\ lastRead = Null

\* ------------------------------------------------------------- object URLs
\* URL.revokeObjectURL(u) guarded by if (u).
Revoke(store, u) ==
    IF u = 0 THEN store ELSE [store EXCEPT ![u].revoked = TRUE]

\* URL.createObjectURL: the new URL is the next index of the store.
CreateUrl(store, f, b) ==
    Append(store, [file |-> f, blob |-> b, revoked |-> FALSE])

\* The effect on [originalUrl, processedUrl]: when either changes, the
\* cleanup of the previous effect revokes both previous URLs.
UrlCleanup(store, oldO, oldP, newO, newP) ==
    IF <<oldO, oldP>> = <<newO, newP>>
    THEN store
    ELSE Revoke(Revoke(store, oldO), oldP)

\* activeUrl: the URL handed to the player.
ActiveUrl == IF compareMode = "processed" THEN processedUrl ELSE originalUrl

RendersInFlight == Cardinality({k \in {"final", "preview"} : renders[k] # Null})
\* Every render in flight and every file load creates one object URL.
UrlBudgetLeft == Len(urlStore) + RendersInFlight < MaxUrls

\* ------------------------------------------------- parameters and history
\* Every (slider, value) the sliders can deliver, and the ones the full
\* application model draws from.
AllSliderInputs ==
    UNION {{<<k, v>> : v \in SliderValues(k)} : k \in DOMAIN SliderBounds}
SampleSliderInputs == {<<"pitch", 1200>>}
SamplePresets == {"Robot"}

\* The history bound of the model: a commit needs room for one more entry.
CanCommit(idx) == idx + 2 <= MaxHistory

\* addToHistory, reading the history and cursor of the calling closure.
AddToHistory(hist, idx, newParams) ==
    /\ history' = NewHistory(hist, idx, newParams)
    /\ historyIndex' = Len(NewHistory(hist, idx, newParams)) - 1

\* The controls whose value differs from the entry under the cursor: a
\* slider that was moved (onChange) and not yet released (onCommit).
DraggedKeys == {k \in Keys : params[k] # history[historyIndex + 1][k]}

\* A slider is moved and then released before another control is used.
UpdateParam(key, value, commit) ==
    /\ DraggedKeys \subseteq {key}
    /\ commit => CanCommit(historyIndex)
    /\ params' = WithParam(params, key, value)
    /\ IF commit
       THEN AddToHistory(history, historyIndex, WithParam(params, key, value))
       ELSE UNCHANGED <<history, historyIndex>>
    /\ UNCHANGED cloudVars
    /\ effects' = << >>
    /\ UNCHANGED <<fileVars, urlVars, processedBlob, flagVars, savedPresets,
                   asyncVars, renderGhost>>

HandleUndo ==
    /\ IF historyIndex > 0
       THEN /\ historyIndex' = historyIndex - 1
            /\ params' = history[historyIndex]
       ELSE UNCHANGED <<historyIndex, params>>
    /\ UNCHANGED cloudVars
    /\ effects' = << >>
    /\ UNCHANGED <<history, fileVars, urlVars, processedBlob, flagVars,
                   savedPresets, asyncVars, renderGhost>>

\* handleRedo guarded by historyIndex < history.length: one step too far.
HandleRedoPastEnd ==
    /\ IF historyIndex < Len(history)
       THEN /\ historyIndex' = historyIndex + 1
            /\ params' = history[Min(historyIndex + 2, Len(history))]
       ELSE UNCHANGED <<historyIndex, params>>
    /\ UNCHANGED cloudVars
    /\ effects' = << >>
    /\ UNCHANGED <<history, fileVars, urlVars, processedBlob, flagVars,
                   savedPresets, asyncVars, renderGhost>>

HandleRedo ==
    /\ IF historyIndex < Len(history) - 1
       THEN /\ historyIndex' = historyIndex + 1
            /\ params' = history[historyIndex + 2]
       ELSE UNCHANGED <<historyIndex, params>>
    /\ UNCHANGED cloudVars
    /\ effects' = << >>
    /\ UNCHANGED <<history, fileVars, urlVars, processedBlob, flagVars,
                   savedPresets, asyncVars, renderGhost>>

HandleReset ==
    /\ CanCommit(historyIndex)
    /\ DraggedKeys = {}
    /\ params' = INITIAL_PARAMS
    /\ AddToHistory(history, historyIndex, INITIAL_PARAMS)
    /\ UNCHANGED cloudVars
    /\ effects' = << >>
    /\ UNCHANGED <<fileVars, urlVars, processedBlob, flagVars, savedPresets,
                   asyncVars, renderGhost>>

\* applyPreset with an Alien preset that also sets the delay feedback to 1.0
ApplyPresetFullFeedback(name) ==
    LET newParams ==
            [PresetParams(params, name)
             EXCEPT !.delayFeedback = IF name = "Alien" THEN 100 ELSE @]
    IN /\ CanCommit(historyIndex)
       /\ DraggedKeys = {}
       /\ params' = newParams
       /\ AddToHistory(history, historyIndex, newParams)
       /\ UNCHANGED cloudVars
       /\ effects' = << >>
       /\ UNCHANGED <<fileVars, urlVars, processedBlob, flagVars, savedPresets,
                      asyncVars, renderGhost>>

ApplyPreset(name) ==
    /\ CanCommit(historyIndex)
    /\ DraggedKeys = {}
    /\ params' = PresetParams(params, name)
    /\ AddToHistory(history, historyIndex, PresetParams(params, name))
    /\ UNCHANGED cloudVars
    /\ effects' = << >>
    /\ UNCHANGED <<fileVars, urlVars, processedBlob, flagVars, savedPresets,
                   asyncVars, renderGhost>>

\* The preset names the user types, and how many presets the model keeps.
PresetLabels == {"mine"}
MaxPresets == 1

\* handleSavePreset with a non-empty name; stored is whether
\* localStorage.setItem succeeded.  The state is updated either way.
HandleSavePreset(name, stored) ==
    /\ Len(savedPresets) < MaxPresets
    /\ savedPresets' = Append(savedPresets, [name |-> name, params |-> params])
    /\ UNCHANGED cloudVars
    /\ effects' = IF stored
                  THEN <<"alert: Preset Saved!">>
                  ELSE <<"alert: Could not save preset (Storage Permission Denied).">>
    /\ UNCHANGED <<fileVars, urlVars, processedBlob, flagVars, histVars,
                   asyncVars, renderGhost>>

HandleLoadPreset(i) ==
    /\ CanCommit(historyIndex)
    /\ DraggedKeys = {}
    /\ params' = savedPresets[i].params
    /\ AddToHistory(history, historyIndex, savedPresets[i].params)
    /\ UNCHANGED cloudVars
    /\ effects' = << >>
    /\ UNCHANGED <<fileVars, urlVars, processedBlob, flagVars, savedPresets,
                   asyncVars, renderGhost>>

\* The compare switch, rendered while processedUrl is set.
SetCompareMode(m) ==
    /\ processedUrl # 0
    /\ compareMode' = m
    /\ UNCHANGED cloudVars
    /\ effects' = << >>
    /\ UNCHANGED <<fileVars, originalUrl, processedUrl, urlStore,
                   processedBlob, flagVars, histVars, savedPresets, asyncVars,
                   renderGhost>>

\* ------------------------------------------------- source: upload, record
\* A recording in progress will load one more file when it stops.
LoadsPending == Cardinality(decodes) + (IF recorder = Null THEN 0 ELSE 1)
CanLoad ==
    /\ LoadsPending < MaxDecodes
    /\ Len(urlStore) + RendersInFlight + (IF recorder = Null THEN 0 ELSE 1)
            < MaxUrls

\* handleFileChange up to its await; the file input is rendered while no
\* file is selected.  ok is whether the picked file is audio decodeAudio
\* can decode.
HandleFileChange(f, ok) ==
    /\ file = 0
    /\ CanLoad
    /\ file' = f
    /\ processedBlob' = Null
    /\ processedUrl' = 0
    /\ LET created == CreateUrl(Revoke(urlStore, originalUrl), f, Null)
       IN /\ originalUrl' = Len(created)
          /\ urlStore' = UrlCleanup(created, originalUrl, processedUrl,
                                    Len(created), 0)
    /\ compareMode' = "original"
    /\ isAnalyzing' = TRUE
    /\ decodes' = decodes \cup {[file |-> f, by |-> "upload", ok |-> ok]}
    /\ UNCHANGED cloudVars
    /\ effects' = <<"decodeAudio">>
    /\ UNCHANGED <<sourceBuffer, isProcessing, isPreviewing, isRecording,
                   progress, histVars, savedPresets, recorder, enhances,
                   renders, renderGhost>>

\* A decode continuation that also runs the analysis on the new buffer.
DecodeResolvedAnalyzing(j) ==
    /\ sourceBuffer' = j.file
    /\ isAnalyzing' = FALSE
    /\ decodes' = decodes \ {j}
    /\ UNCHANGED cloudVars
    /\ effects' = <<"analyzeAudioBuffer">>
    /\ UNCHANGED <<file, urlVars, processedBlob, isProcessing, isPreviewing,
                   isRecording, progress, histVars, savedPresets, recorder,
                   enhances, renders, renderGhost>>

\* The continuation of a decode that resolved: setSourceBuffer, then finally.
DecodeResolved(j) ==
    /\ sourceBuffer' = j.file
    /\ isAnalyzing' = FALSE
    /\ decodes' = decodes \ {j}
    /\ UNCHANGED cloudVars
    /\ effects' = << >>
    /\ UNCHANGED <<file, urlVars, processedBlob, isProcessing, isPreviewing,
                   isRecording, progress, histVars, savedPresets, recorder,
                   enhances, renders, renderGhost>>

\* A rejected decode handled without the finally block.
DecodeRejectedNoFinally(j, message) ==
    /\ decodes' = decodes \ {j}
    /\ UNCHANGED cloudVars
    /\ effects' = <<message>>
    /\ UNCHANGED <<fileVars, urlVars, processedBlob, flagVars, histVars,
                   savedPresets, recorder, enhances, renders, renderGhost>>

\* The continuation of a decode that rejected: catch (alert), then finally.
DecodeRejected(j, message) ==
    /\ isAnalyzing' = FALSE
    /\ decodes' = decodes \ {j}
    /\ UNCHANGED cloudVars
    /\ effects' = <<message>>
    /\ UNCHANGED <<fileVars, urlVars, processedBlob, isProcessing,
                   isPreviewing, isRecording, progress, histVars,
                   savedPresets, recorder, enhances, renders, renderGhost>>

FileDecoded(j) == j.by = "upload" /\ j.ok /\ DecodeResolved(j)

FileDecodeFailed(j) ==
    /\ j.by = "upload" /\ ~j.ok
    /\ DecodeRejected(j, "alert: Could not decode audio file.")

\* The clear button of the source card, rendered while a file is selected.
ClearSource ==
    /\ file # 0
    /\ file' = 0
    /\ sourceBuffer' = 0
    /\ originalUrl' = 0
    /\ processedUrl' = 0
    /\ compareMode' = "original"
    /\ urlStore' = UrlCleanup(urlStore, originalUrl, processedUrl, 0, 0)
    /\ UNCHANGED cloudVars
    /\ effects' = << >>
    /\ UNCHANGED <<processedBlob, flagVars, histVars, savedPresets, asyncVars,
                   renderGhost>>

\* startRecording: mr.onstop closes over the URLs of the render in which
\* recording was started.
StartRecording ==
    /\ ~isRecording
    /\ recorder = Null
    /\ CanLoad
    /\ recorder' = Some([originalUrl |-> originalUrl,
                         processedUrl |-> processedUrl,
                         state |-> "recording"])
    /\ isRecording' = TRUE
    /\ UNCHANGED cloudVars
    /\ effects' = << >>
    /\ UNCHANGED <<fileVars, urlVars, processedBlob, isProcessing,
                   isAnalyzing, isPreviewing, progress, histVars,
                   savedPresets, decodes, enhances, renders, renderGhost>>

StopRecording ==
    /\ isRecording
    /\ recorder # Null /\ Val(recorder).state = "recording"
    /\ recorder' = Some([Val(recorder) EXCEPT !.state = "stopping"])
    /\ isRecording' = FALSE
    /\ UNCHANGED cloudVars
    /\ effects' = << >>
    /\ UNCHANGED <<fileVars, urlVars, processedBlob, isProcessing,
                   isAnalyzing, isPreviewing, progress, histVars,
                   savedPresets, decodes, enhances, renders, renderGhost>>

\* mr.onstop up to its await; ok is whether the recorded blob decodes.
RecorderOnStop(ok) ==
    /\ recorder # Null /\ Val(recorder).state = "stopping"
    /\ file' = RecFile
    /\ processedBlob' = Null
    /\ processedUrl' = 0
    /\ LET closure == Val(recorder)
           created == CreateUrl(
                          Revoke(Revoke(urlStore, closure.originalUrl),
                                 closure.processedUrl),
                          RecFile, Null)
       IN /\ originalUrl' = Len(created)
          /\ urlStore' = UrlCleanup(created, originalUrl, processedUrl,
                                    Len(created), 0)
    /\ compareMode' = "original"
    /\ isAnalyzing' = TRUE
    /\ decodes' = decodes \cup {[file |-> RecFile, by |-> "recording", ok |-> ok]}
    /\ recorder' = Null
    /\ UNCHANGED cloudVars
    /\ effects' = <<"decodeAudio">>
    /\ UNCHANGED <<sourceBuffer, isProcessing, isPreviewing, isRecording,
                   progress, histVars, savedPresets, enhances, renders,
                   renderGhost>>

RecordingDecoded(j) == j.by = "recording" /\ j.ok /\ DecodeResolved(j)

RecordingDecodeFailed(j) ==
    /\ j.by = "recording" /\ ~j.ok
    /\ DecodeRejected(j,
          "alert: Failed to process recording. Please try again or upload a file.")

\* ------------------------------------------------------------ auto-enhance
\* handleAutoEnhance up to its await: the closure keeps the buffer, the
\* ParameterSet, the history and the cursor of the calling render.
HandleAutoEnhance ==
    /\ sourceBuffer # 0
    /\ ~isAnalyzing
    /\ Cardinality(enhances) < MaxEnhance
    /\ CanCommit(historyIndex)
    /\ isAnalyzing' = TRUE
    /\ enhances' = enhances \cup
            {[buf |-> sourceBuffer, params |-> params, history |-> history,
              historyIndex |-> historyIndex]}
    /\ UNCHANGED cloudVars
    /\ effects' = << >>
    /\ UNCHANGED <<fileVars, urlVars, processedBlob, isProcessing,
                   isPreviewing, isRecording, progress, histVars,
                   savedPresets, recorder, decodes, renders, renderGhost>>

\* { ...params, ...suggestions } as the continuation computes it.
EnhancedParams(e) == Merge(e.params, Analyze(e.buf))

\* The continuation after the 500 ms wait.
AutoEnhanceDone(e) ==
    /\ params' = EnhancedParams(e)
    /\ AddToHistory(e.history, e.historyIndex, EnhancedParams(e))
    /\ isAnalyzing' = FALSE
    /\ enhances' = enhances \ {e}
    /\ UNCHANGED cloudVars
    /\ effects' = <<"analyzeAudioBuffer">>
    /\ UNCHANGED <<fileVars, urlVars, processedBlob, isProcessing,
                   isPreviewing, isRecording, progress, savedPresets,
                   recorder, decodes, renders, renderGhost>>

\* ----------------------------------------------------------------- renders
Kinds == {"final", "preview"}

\* A render handed the committed entry under the cursor, not params.
RenderArgsCommitted ==
    [buf |-> sourceBuffer, params |-> history[historyIndex + 1]]

\* The arguments handlePreview / handleProcess pass to renderAudioFromBuffer.
RenderArgs == [buf |-> sourceBuffer, params |-> params]

\* A pipeline that keeps the validated ParameterSet in one place shared by
\* all calls: a call entering while a final render runs reads that render's.
EngineStartSharedParams(buf, p) ==
    [buf |-> buf, handed |-> p,
     stage |-> IF renders.final # Null
               THEN Val(renders.final).stage
               ELSE Clamp(p),
     k |-> 0]

\* Pipeline entry: the call owns its ParameterSet, validated once, and its
\* own block cursor.
EngineStart(buf, p) ==
    [buf |-> buf, handed |-> p, stage |-> Clamp(p), k |-> 0]

\* The ParameterSet the stages of a running call read.
StageParams(job) == job.stage

\* The blob the encode step of a running call produces.
EngineOutput(job) ==
    [src |-> job.buf, params |-> StageParams(job), blocks |-> job.k,
     chain |-> StagesApplied(StageParams(job))]

\* A callback that shows what remains instead of what is done.
ProgressCallbackRemaining(p) == 100 - p

\* The onProgress callback of handleProcess: (p) => setProgress(p).
ProgressCallback(p) == p

\* A render call in flight: the engine's state for the call, the
\* processedUrl its closure captured, and the buffer and ParameterSet that
\* were current when it was called.
NewRender(kind) ==
    EngineStart(RenderArgs.buf, RenderArgs.params) @@
    [purl |-> processedUrl,
     atStart |-> [buf |-> sourceBuffer, params |-> params]]

StartRender(kind) == renders' = [renders EXCEPT ![kind] = Some(NewRender(kind))]

EndRender(kind, ok) ==
    /\ renders' = [renders EXCEPT ![kind] = Null]
    /\ lastRender' = Some([kind |-> kind, ok |-> ok])
    /\ rendered' =
         IF ok
         THEN rendered \cup
                {[kind |-> kind, buf |-> Val(renders[kind]).buf,
                  params |-> Val(renders[kind]).handed,
                  out |-> EngineOutput(Val(renders[kind]))]}
         ELSE rendered

HandlePreview ==
    /\ sourceBuffer # 0
    /\ ~isPreviewing
    /\ UrlBudgetLeft
    /\ isPreviewing' = TRUE
    /\ StartRender("preview")
    /\ UNCHANGED cloudVars
    /\ effects' = <<"renderAudioFromBuffer">>
    /\ UNCHANGED <<fileVars, urlVars, processedBlob, isProcessing,
                   isAnalyzing, isRecording, progress, histVars,
                   savedPresets, recorder, decodes, enhances, renderGhost>>

HandleProcess ==
    /\ sourceBuffer # 0
    /\ ~isProcessing
    /\ UrlBudgetLeft
    /\ isProcessing' = TRUE
    /\ progress' = 0
    /\ StartRender("final")
    /\ progLog' = << >>
    /\ UNCHANGED cloudVars
    /\ effects' = <<"renderAudioFromBuffer">>
    /\ UNCHANGED <<fileVars, urlVars, processedBlob, isAnalyzing,
                   isPreviewing, isRecording, histVars, savedPresets,
                   recorder, decodes, enhances, lastRender, rendered>>

\* The pipeline processes the next block of a call; a final render's
\* callback receives the percentage.
RenderBlock(kind) ==
    /\ renders[kind] # Null
    /\ LET job == Val(renders[kind])
           n == NumBlocks(job.buf)
       IN /\ job.k < n
          /\ renders' = [renders EXCEPT ![kind] = Some([job EXCEPT !.k = @ + 1])]
          /\ IF kind = "final"
             THEN /\ progress' = ProgressCallback(BlockPercent(job.k + 1, n))
                  /\ progLog' = Append(progLog, BlockPercent(job.k + 1, n))
             ELSE UNCHANGED <<progress, progLog>>
    /\ UNCHANGED cloudVars
    /\ effects' = << >>
    /\ UNCHANGED <<fileVars, urlVars, processedBlob, isProcessing,
                   isAnalyzing, isPreviewing, isRecording, histVars,
                   savedPresets, recorder, decodes, enhances, lastRender,
                   rendered>>

\* A continuation that builds the URL from the processedBlob state when
\* there is one, not from its own outBlob.
InstallProcessedUrlOfBlob(job, out) ==
    LET shown == IF processedBlob = Null THEN Some(out) ELSE processedBlob
        created == CreateUrl(Revoke(urlStore, job.purl), 0, shown)
    IN /\ processedUrl' = Len(created)
       /\ urlStore' = UrlCleanup(created, originalUrl, processedUrl,
                                 originalUrl, Len(created))
       /\ compareMode' = "processed"
       /\ UNCHANGED originalUrl

\* setProcessedUrl(url) of a completed render and the effects it triggers.
InstallProcessedUrl(job, out) ==
    LET created == CreateUrl(Revoke(urlStore, job.purl), 0, Some(out))
    IN /\ processedUrl' = Len(created)
       /\ urlStore' = UrlCleanup(created, originalUrl, processedUrl,
                                 originalUrl, Len(created))
       /\ compareMode' = "processed"
       /\ UNCHANGED originalUrl

\* The final render encodes, reports 100 and resolves; handleProcess
\* continues after its await and runs its finally.
ProcessDone ==
    /\ renders.final # Null
    /\ LET job == Val(renders.final)
       IN /\ job.k = NumBlocks(job.buf)
          /\ progLog' = Append(progLog, 100)
          /\ processedBlob' = Some(EngineOutput(job))
          /\ InstallProcessedUrl(job, EngineOutput(job))
    /\ isProcessing' = FALSE
    /\ progress' = 0
    /\ EndRender("final", TRUE)
    /\ UNCHANGED cloudVars
    /\ effects' = << >>
    /\ UNCHANGED <<fileVars, isAnalyzing, isPreviewing, isRecording,
                   histVars, savedPresets, recorder, decodes, enhances>>

\* A rejected final render handled without the finally block.
ProcessFailedNoFinally ==
    /\ renders.final # Null
    /\ EndRender("final", FALSE)
    /\ UNCHANGED cloudVars
    /\ effects' = <<"alert: Processing failed.">>
    /\ UNCHANGED <<fileVars, urlVars, processedBlob, flagVars, histVars,
                   savedPresets, recorder, decodes, enhances, progLog>>

\* The final render rejects: catch (alert), then finally.
ProcessFailed ==
    /\ renders.final # Null
    /\ isProcessing' = FALSE
    /\ progress' = 0
    /\ EndRender("final", FALSE)
    /\ UNCHANGED cloudVars
    /\ effects' = <<"alert: Processing failed.">>
    /\ UNCHANGED <<fileVars, urlVars, processedBlob, isAnalyzing,
                   isPreviewing, isRecording, histVars, savedPresets,
                   recorder, decodes, enhances, progLog>>

\* The preview render resolves; handlePreview continues and runs its finally.
PreviewDone ==
    /\ renders.preview # Null
    /\ LET job == Val(renders.preview)
       IN /\ job.k = NumBlocks(job.buf)
          /\ InstallProcessedUrl(job, EngineOutput(job))
    /\ isPreviewing' = FALSE
    /\ EndRender("preview", TRUE)
    /\ UNCHANGED cloudVars
    /\ effects' = << >>
    /\ UNCHANGED <<fileVars, processedBlob, isProcessing, isAnalyzing,
                   isRecording, progress, histVars, savedPresets, recorder,
                   decodes, enhances, progLog>>

PreviewFailed ==
    /\ renders.preview # Null
    /\ isPreviewing' = FALSE
    /\ EndRender("preview", FALSE)
    /\ UNCHANGED cloudVars
    /\ effects' = <<"alert: Preview failed">>
    /\ UNCHANGED <<fileVars, urlVars, processedBlob, isProcessing,
                   isAnalyzing, isRecording, progress, histVars,
                   savedPresets, recorder, decodes, enhances, progLog>>

\* ----------------------------------------------------------- cloud library
\* How many times the save button and the library's loadTracks are used,
\* the last value of the clock, and how many distinct ids there are.
MaxSaves == 2
MaxLoads == 1
MaxClock == 1
MaxTracks == 2

\* crypto.randomUUID(): the ids, ordered as IndexedDB orders its keys.
TrackIds == 1..MaxTracks

\* new Date().toISOString() and new Date(iso).getTime(), to the millisecond.
ToISOString(ms) == <<"iso", ms>>
GetTime(iso) == iso[2]

\* AudioBuffer.duration, in frames of the common sample rate; the duration
\* of a rendered blob is that of its output frames.
BufferDuration(buf) == Frames(buf)
BlobDuration(out) == OutputFrames(out)

\* trackData as handleSaveToCloud builds it from the values of its closure.
TrackData(id, ms, s) ==
    [id |-> id,
     name |-> <<"Edited_", s.file>>,
     date |-> ToISOString(ms),
     blob |-> s.blob,
     duration |-> IF s.buf # 0 THEN BufferDuration(s.buf) ELSE 0]

\* memoryStore.findIndex(t => t.id === id): 0 stands for -1.
FindIndex(store, id) ==
    IF \E i \in DOMAIN store : store[i].id = id
    THEN CHOOSE i \in DOMAIN store :
            /\ store[i].id = id
            /\ \A j \in 1..(i - 1) : store[j].id # id
    ELSE 0

\* The fallback of saveTrackToCloud: replace in place or push.
MemoryPut(store, track) ==
    IF FindIndex(store, track.id) >= 1
    THEN [store EXCEPT ![FindIndex(store, track.id)] = track]
    ELSE Append(store, track)

\* store.put(track) with keyPath 'id'.
IdbPut(db, track) == {t \in db : t.id # track.id} \cup {track}

\* store.getAll(): the records in ascending order of their key.
RECURSIVE GetAll(_)
GetAll(db) ==
    IF db = {}
    THEN << >>
    ELSE LET first == CHOOSE t \in db : \A u \in db : t.id <= u.id
         IN <<first>> \o GetAll(db \ {first})

\* The comparator of both sorts: negative when a goes before b.
NewestFirst(a, b) == GetTime(b.date) - GetTime(a.date)

\* Array.prototype.sort with that comparator: stable, so tracks that compare
\* equal keep the order they have in the array.
RECURSIVE InsertSorted(_, _)
InsertSorted(sorted, t) ==
    IF sorted = << >>
    THEN <<t>>
    ELSE IF NewestFirst(sorted[Len(sorted)], t) <= 0
         THEN Append(sorted, t)
         ELSE Append(InsertSorted(SubSeq(sorted, 1, Len(sorted) - 1), t),
                     sorted[Len(sorted)])

RECURSIVE SortNewestFirst(_)
SortNewestFirst(arr) ==
    IF arr = << >>
    THEN << >>
    ELSE InsertSorted(SortNewestFirst(SubSeq(arr, 1, Len(arr) - 1)),
                      arr[Len(arr)])

\* getCloudTracks served by the fallback and served by IndexedDB.
TracksFromMemory(store) == SortNewestFirst(store)
TracksFromIdb(db) == SortNewestFirst(GetAll(db))

\* How a call of the service ends: openDB rejects, or the database opens
\* and the request succeeds, or the database opens and the request fails.
SaveOutcomes == {"unavailable", "stored", "putFailed"}
ReadOutcomes == {"unavailable", "read", "readFailed"}

\* The Enhancer state the library operations leave alone.
enhancerVars ==
    <<fileVars, urlVars, processedBlob, flagVars, histVars, savedPresets,
      asyncVars, renderGhost>>
libraryVars == <<posts, loading, loads, loadCalls, lastRead>>

\* handleSaveToCloud up to its await: the closure keeps processedBlob, file
\* and sourceBuffer of the calling render.
HandleSaveToCloud ==
    /\ processedBlob # Null
    /\ file # 0
    /\ saveCalls < MaxSaves
    /\ isUploading' = TRUE
    /\ saveCalls' = saveCalls + 1
    /\ saves' = saves \cup
            {[call |-> saveCalls + 1, blob |-> Val(processedBlob),
              file |-> file, buf |-> sourceBuffer, track |-> Null]}
    /\ effects' = << >>
    /\ UNCHANGED <<enhancerVars, memoryStore, idb, now, savedTracks, lastSave,
                   libraryVars>>

\* After the 1500 ms wait: trackData is built with a fresh id and the time
\* of the clock, and saveTrackToCloud starts to open the database.
SaveTimerFired(s, id, ms) ==
    /\ s.track = Null
    /\ \A t \in savedTracks : t.id # id
    /\ \A o \in saves : o.track # Null => Val(o.track).id # id
    /\ ms >= now
    /\ now' = ms
    /\ saves' = (saves \ {s}) \cup
                    {[s EXCEPT !.track = Some(TrackData(id, ms, s))]}
    /\ effects' = << >>
    /\ UNCHANGED <<enhancerVars, isUploading, saveCalls, memoryStore, idb,
                   savedTracks, lastSave, libraryVars>>

\* saveTrackToCloud with "return await": a failed put is caught as well and
\* falls back to memory.
SaveTrackToCloudAwaited(track, outcome) ==
    /\ memoryStore' = IF outcome \in {"unavailable", "putFailed"}
                      THEN MemoryPut(memoryStore, track)
                      ELSE memoryStore
    /\ idb' = IF outcome = "stored" THEN IdbPut(idb, track) ELSE idb

\* saveTrackToCloud: the catch runs only when openDB rejects; the promise
\* of the put is returned without await, so its rejection is the caller's.
SaveTrackToCloud(track, outcome) ==
    /\ memoryStore' = IF outcome = "unavailable"
                      THEN MemoryPut(memoryStore, track)
                      ELSE memoryStore
    /\ idb' = IF outcome = "stored" THEN IdbPut(idb, track) ELSE idb

SaveResolves(outcome) == outcome # "putFailed"

\* saveTrackToCloud settles and handleSaveToCloud continues: alert, finally.
SaveSettled(s, outcome) ==
    /\ s.track # Null
    /\ SaveTrackToCloud(Val(s.track), outcome)
    /\ effects' = IF SaveResolves(outcome)
                  THEN <<"alert: Saved to Cloud Library successfully!">>
                  ELSE <<"alert: Failed to save to library.">>
    /\ isUploading' = FALSE
    /\ saves' = saves \ {s}
    /\ savedTracks' = IF SaveResolves(outcome)
                      THEN savedTracks \cup {Val(s.track)}
                      ELSE savedTracks
    /\ lastSave' = Some([track |-> Val(s.track), outcome |-> outcome,
                         memoryBefore |-> memoryStore])
    /\ UNCHANGED <<enhancerVars, saveCalls, now, libraryVars>>

\* The library's loadTracks up to its await (on mount and on refresh).
LoadTracks ==
    /\ loadCalls < MaxLoads
    /\ loads = {}
    /\ loading' = TRUE
    /\ loadCalls' = loadCalls + 1
    /\ loads' = {[call |-> loadCalls + 1, saved |-> savedTracks]}
    /\ effects' = << >>
    /\ UNCHANGED <<enhancerVars, isUploading, saves, saveCalls, memoryStore,
                   idb, now, savedTracks, lastSave, posts, lastRead>>

\* What getCloudTracks resolves with, << >> wrapping nothing when it rejects.
GetCloudTracks(outcome) ==
    CASE outcome = "unavailable" -> Some(TracksFromMemory(memoryStore))
      [] outcome = "read" -> Some(TracksFromIdb(idb))
      [] outcome = "readFailed" -> Null

\* getCloudTracks settles and loadTracks continues.
LoadTracksSettled(l, outcome) ==
    /\ posts' = IF GetCloudTracks(outcome) # Null
                THEN Val(GetCloudTracks(outcome))
                ELSE posts
    /\ loading' = FALSE
    /\ loads' = loads \ {l}
    /\ lastRead' = Some([saved |-> l.saved, outcome |-> outcome,
                         tracks |-> GetCloudTracks(outcome)])
    /\ effects' = << >>
    /\ UNCHANGED <<enhancerVars, isUploading, saves, saveCalls, memoryStore,
                   idb, now, savedTracks, lastSave, loadCalls>>

\* ---------------------------------------------------------- specifications
\* The operations on the source: upload, clear, recording, decode results.
SourceNext ==
    \/ \E f \in Files : \E ok \in BOOLEAN : HandleFileChange(f, ok)
    \/ \E j \in decodes : FileDecoded(j)
    \/ \E j \in decodes : FileDecodeFailed(j)
    \/ ClearSource
    \/ StartRecording
    \/ StopRecording
    \/ \E ok \in BOOLEAN : RecorderOnStop(ok)
    \/ \E j \in decodes : RecordingDecoded(j)
    \/ \E j \in decodes : RecordingDecodeFailed(j)

EnhanceNext ==
    \/ HandleAutoEnhance
    \/ \E e \in enhances : AutoEnhanceDone(e)

\* Preview and final render.
RenderNext ==
    \/ HandlePreview
    \/ HandleProcess
    \/ \E kind \in Kinds : RenderBlock(kind)
    \/ ProcessDone
    \/ ProcessFailed
    \/ PreviewDone
    \/ PreviewFailed

\* The application with the controls left alone: sources, analysis and
\* renders in every interleaving.
Next == SourceNext \/ EnhanceNext \/ RenderNext

Spec == Init /\ [][Next]_vars

\* An upload that decodes.
UploadNext ==
    \/ \E f \in Files : HandleFileChange(f, TRUE)
    \/ \E j \in decodes : FileDecoded(j)

\* The parameter operations a user interleaves with renders: a slider, a
\* saved preset, undo and redo.
EditNext ==
    \/ \E kv \in SampleSliderInputs : \E c \in BOOLEAN : UpdateParam(kv[1], kv[2], c)
    \/ HandleUndo
    \/ HandleRedo
    \/ \E i \in 1..Len(savedPresets) : HandleLoadPreset(i)

\* Renders of one uploaded source interleaved with edits of the controls.
EditingNext == UploadNext \/ RenderNext \/ EditNext

SpecEditing == Init /\ [][EditingNext]_vars

\* The parameter session: every operation on params, history and presets,
\* with a source loaded so that auto-enhance can run.
HistoryNext ==
    \/ \E kv \in SampleSliderInputs : \E c \in BOOLEAN : UpdateParam(kv[1], kv[2], c)
    \/ HandleUndo
    \/ HandleRedo
    \/ HandleReset
    \/ \E n \in SamplePresets : ApplyPreset(n)
    \/ \E n \in PresetLabels : \E ok \in BOOLEAN : HandleSavePreset(n, ok)
    \/ \E i \in 1..Len(savedPresets) : HandleLoadPreset(i)
    \/ UploadNext
    \/ EnhanceNext

SpecHistory == Init /\ [][HistoryNext]_vars

\* The ParameterSets the built-in controls can produce: every slider, every
\* built-in preset, reset, undo and redo, with nothing loaded from storage.
ControlsNext ==
    \/ \E kv \in AllSliderInputs : \E c \in BOOLEAN : UpdateParam(kv[1], kv[2], c)
    \/ HandleUndo
    \/ HandleRedo
    \/ HandleReset
    \/ \E n \in PresetNames : ApplyPreset(n)

SpecControls == Init /\ [][ControlsNext]_vars

\* A session whose localStorage holds no presets when the view mounts.
InitNoStoredPresets == Init /\ savedPresets = << >>

\* Every slider moved to its upper end.
SliderTopInputs == {<<k, SliderBounds[k][2]>> : k \in DOMAIN SliderBounds}

\* The controls with presets saved and loaded by the session itself: every
\* slider moved to its upper end and released, every built-in preset,
\* reset, undo, redo, save preset and load preset.
PresetsNext ==
    \/ \E kv \in SliderTopInputs : UpdateParam(kv[1], kv[2], TRUE)
    \/ HandleUndo
    \/ HandleRedo
    \/ HandleReset
    \/ \E n \in PresetNames : ApplyPreset(n)
    \/ \E n \in PresetLabels : \E ok \in BOOLEAN : HandleSavePreset(n, ok)
    \/ \E i \in 1..Len(savedPresets) : HandleLoadPreset(i)

SpecPresets == InitNoStoredPresets /\ [][PresetsNext]_vars

\* Listening: one uploaded source, renders, and the compare switch.
CompareNext ==
    \/ UploadNext
    \/ RenderNext
    \/ \E m \in {"original", "processed"} : SetCompareMode(m)

SpecCompare == Init /\ [][CompareNext]_vars

\* The Speed slider released at one of its ends.
StretchInputs == {<<"stretch", v>> : v \in SliderValues("stretch")}

\* Saving to the library: one uploaded source, the Speed slider, the final
\* render, the save button, and the library view reading the tracks, with
\* IndexedDB available or not at every call of the service.
CloudNext ==
    \/ UploadNext
    \/ \E kv \in StretchInputs : UpdateParam(kv[1], kv[2], TRUE)
    \/ HandleProcess
    \/ RenderBlock("final")
    \/ ProcessDone
    \/ HandleSaveToCloud
    \/ \E s \in saves : \E id \in TrackIds : \E ms \in 0..MaxClock :
            SaveTimerFired(s, id, ms)
    \/ \E s \in saves : \E o \in SaveOutcomes : SaveSettled(s, o)
    \/ LoadTracks
    \/ \E l \in loads : \E o \in ReadOutcomes : LoadTracksSettled(l, o)

SpecCloud == InitNoStoredPresets /\ [][CloudNext]_vars

\* The tracks the service is handed when it is exercised on its own.
SampleTracks ==
    {TrackData(id, ms, [file |-> 1, blob |-> RenderAlone(1, INITIAL_PARAMS),
                        buf |-> 1]) :
        id \in TrackIds, ms \in 0..MaxClock}

\* One saveTrackToCloud call made in two sessions at once: a session where
\* openDB rejects at every call, whose tracks are in memoryStore, and a
\* session where it resolves at every call, whose tracks are in idb.
SaveInBothSessions(track) ==
    /\ memoryStore' = MemoryPut(memoryStore, track)
    /\ idb' = IdbPut(idb, track)
    /\ savedTracks' = savedTracks \cup {track}
    /\ lastSave' = Some([track |-> track, outcome |-> "stored",
                         memoryBefore |-> memoryStore])
    /\ effects' = << >>
    /\ UNCHANGED <<enhancerVars, isUploading, saves, saveCalls, now,
                   libraryVars>>

\* One getCloudTracks call in both sessions: the library view shows the
\* answer of the fallback session, lastRead keeps the answer of the other.
ReadInBothSessions ==
    /\ posts' = TracksFromMemory(memoryStore)
    /\ loading' = FALSE
    /\ lastRead' = Some([saved |-> savedTracks, outcome |-> "read",
                         tracks |-> Some(TracksFromIdb(idb))])
    /\ effects' = << >>
    /\ UNCHANGED <<enhancerVars, isUploading, saves, saveCalls, memoryStore,
                   idb, now, savedTracks, lastSave, loads, loadCalls>>

StoreNext ==
    \/ \E t \in SampleTracks : SaveInBothSessions(t)
    \/ ReadInBothSessions

SpecStore == InitNoStoredPresets /\ [][StoreNext]_vars

\* ------------------------------------------------------------ properties
\* A render call of the given kind ends in this step, and how.
Ended(kind) == renders[kind] # Null /\ renders'[kind] = Null
Succeeded(kind) == Ended(kind) /\ lastRender' = Some([kind |-> kind, ok |-> TRUE])
Failed(kind) == Ended(kind) /\ lastRender' = Some([kind |-> kind, ok |-> FALSE])

IsPrefix(s, t) == Len(s) <= Len(t) /\ SubSeq(t, 1, Len(s)) = s
Range(s) == {s[i] : i \in DOMAIN s}
Alerts(s) == {i \in DOMAIN s : SubSeq(s[i], 1, 6) = "alert:"}

\* The values the progress callback of the current final render received:
\* non-decreasing, within 0..100, and 100 at most once, as the last value.
ProgressLogOrdered ==
    /\ IsNonDecreasing(progLog)
    /\ \A i \in DOMAIN progLog : progLog[i] \in 0..100
    /\ CountOf(progLog, 100) <= 1
    /\ \A i \in DOMAIN progLog : progLog[i] = 100 => i = Len(progLog)

EnhancesDone == enhances \ enhances'

\* C2 (as amended): undo and redo never change the history; an operation
\* that commits keeps the entries up to the cursor it read, drops the
\* entries after it and appends the new ParameterSet as the last entry.
\* The auto-enhance continuation reads the history and cursor captured when
\* it was requested.
C2_CommitTruncatesAndAppends ==
    [][history' # history =>
          /\ params' = history'[Len(history')]
          /\ historyIndex' = Len(history') - 1
          /\ IF EnhancesDone # {}
             THEN \E e \in EnhancesDone :
                    history' = Append(SubSeq(e.history, 1, e.historyIndex + 1),
                                      params')
             ELSE history' = Append(SubSeq(history, 1, historyIndex + 1),
                                    params')]_vars

\* C2 as stated: a history operation only ever appends, so the old history
\* is a prefix of the new one.
C2_AppendOnly == [][IsPrefix(history, history')]_vars

\* An entry that was in the history when an auto-enhance was requested has
\* since been replaced by a commit made after an undo.
C2_Witness ==
    \E e \in enhances :
        /\ Len(e.history) >= 2
        /\ Len(history) >= 2
        /\ e.history[2] # history[2]
        /\ historyIndex = Len(history) - 1

\* C3: a preview and a final render of the same source running together do
\* not touch each other's call, and each delivers exactly the output it
\* delivers when it runs alone on the buffer and ParameterSet it was
\* started with.
C3_ConcurrentRendersIndependent ==
    [][\A kind \in Kinds :
          /\ (renders'[kind] # renders[kind]) =>
                \A other \in Kinds \ {kind} : renders'[other] = renders[other]
          /\ Succeeded(kind) =>
                LET job == Val(renders[kind])
                    alone == RenderAlone(job.atStart.buf, job.atStart.params)
                IN /\ urlStore'[processedUrl'].blob = Some(alone)
                   /\ IF kind = "final"
                      THEN processedBlob' = Some(alone)
                      ELSE processedBlob' = processedBlob]_vars

\* A preview has delivered its output while a final render with another
\* ParameterSet was part-way through its blocks.
C3_Witness ==
    /\ lastRender = Some([kind |-> "preview", ok |-> TRUE])
    /\ processedUrl # 0
    /\ renders.final # Null
    /\ Val(renders.final).k > 0
    /\ urlStore[processedUrl].blob # Null
    /\ Val(urlStore[processedUrl].blob).params # StageParams(Val(renders.final))

\* What the end of any render call guarantees: one outcome, the complete
\* output installed on success, nothing installed and one alert on failure.
OutcomeOfCall(kind) ==
    LET job == Val(renders[kind])
    IN /\ Succeeded(kind) \/ Failed(kind)
       /\ Succeeded(kind) =>
            /\ Alerts(effects') = {}
            /\ urlStore'[processedUrl'].blob = Some(EngineOutput(job))
            /\ EngineOutput(job).blocks = NumBlocks(job.buf)
            /\ kind = "final" => processedBlob' = Some(EngineOutput(job))
       /\ Failed(kind) =>
            /\ Cardinality(Alerts(effects')) = 1
            /\ processedBlob' = processedBlob

\* C4 (as amended): a render call ends in exactly one outcome and its busy
\* flag is false afterwards.  handleProcess also returns progress to 0;
\* handlePreview leaves progress as the final render set it.  On failure
\* the call changes neither processedBlob nor processedUrl.
C4_RenderOutcome ==
    [][\A kind \in Kinds : Ended(kind) =>
          /\ OutcomeOfCall(kind)
          /\ IF kind = "final"
             THEN ~isProcessing' /\ progress' = 0
             ELSE ~isPreviewing' /\ progress' = progress
          /\ Failed(kind) =>
                processedUrl' = processedUrl /\ urlStore' = urlStore]_vars

\* C4 as stated: the same, with progress 0 after a handlePreview call too.
C4_ProgressZeroAfterAnyRender ==
    [][\A kind \in Kinds : Ended(kind) =>
          /\ OutcomeOfCall(kind)
          /\ IF kind = "final" THEN ~isProcessing' ELSE ~isPreviewing'
          /\ progress' = 0
          /\ Failed(kind) =>
                processedUrl' = processedUrl /\ urlStore' = urlStore]_vars

\* A preview has failed while the final render shows progress.
C4_Witness ==
    /\ lastRender = Some([kind |-> "preview", ok |-> FALSE])
    /\ effects = <<"alert: Preview failed">>
    /\ ~isPreviewing
    /\ isProcessing
    /\ progress > 0

\* Every render in flight works on the buffer and the (validated)
\* ParameterSet that were current when it was called.
RendersKeepStartArguments ==
    \A kind \in Kinds : renders[kind] # Null =>
        LET job == Val(renders[kind])
        IN /\ job.buf = job.atStart.buf
           /\ job.handed = job.atStart.params
           /\ StageParams(job) = Clamp(job.atStart.params)

\* C5: a render uses the ParameterSet held when it was called, whatever
\* sliders, presets, undo or redo do while it runs, and no step of a render
\* call changes params or the history.
C5_RenderUsesParamsAtCall ==
    /\ []RendersKeepStartArguments
    /\ [][/\ renders' # renders => UNCHANGED histVars
          /\ \A kind \in Kinds : Succeeded(kind) =>
                Val(urlStore'[processedUrl'].blob).params =
                    Clamp(Val(renders[kind]).atStart.params)]_vars

\* A final render has processed all its blocks with the ParameterSet of its
\* call while params has since been changed and committed.
C5_Witness ==
    /\ renders.final # Null
    /\ Val(renders.final).k = NumBlocks(Val(renders.final).buf)
    /\ Val(renders.final).atStart.params # params
    /\ Clamp(Val(renders.final).atStart.params) # Clamp(params)
    /\ DraggedKeys = {}

\* C6: a render handed a ParameterSet with values outside their domains
\* proceeds with every bounded value clamped into its domain, and what it
\* delivers carries the clamped values.
C6_OutOfDomainClamped ==
    /\ \A kind \in Kinds : renders[kind] # Null =>
          LET job == Val(renders[kind])
          IN /\ InDomain(StageParams(job))
             /\ StageParams(job) = Clamp(job.handed)
             /\ \A key \in Keys \ DOMAIN ParamDomain :
                    StageParams(job)[key] = job.handed[key]
             /\ \A key \in DOMAIN ParamDomain :
                    LET d == ParamDomain[key]
                    IN job.handed[key] \in d[1]..d[2] =>
                           StageParams(job)[key] = job.handed[key]
    /\ processedBlob # Null => InDomain(Val(processedBlob).params)
    /\ \A u \in DOMAIN urlStore :
          urlStore[u].blob # Null => InDomain(Val(urlStore[u].blob).params)

\* A final render called with the out-of-domain stored preset has delivered
\* its output, rendered with the clamped values.
C6_Witness ==
    /\ params = StoredPreset.params
    /\ ~InDomain(params)
    /\ lastRender = Some([kind |-> "final", ok |-> TRUE])
    /\ processedBlob # Null
    /\ Val(processedBlob).params = Clamp(StoredPreset.params)
    /\ Val(processedBlob).params # params

\* The decode continuations that run in this step.
DecodesDone == decodes \ decodes'

\* C7: a decode failure is reported with one alert, starts no further
\* decode, leaves the source buffer as it was and ends with isAnalyzing
\* false.
C7_DecodeFailureSurfacedOnce ==
    [][\A j \in DecodesDone : ~j.ok =>
          /\ Cardinality(Alerts(effects')) = 1
          /\ "decodeAudio" \notin Range(effects')
          /\ decodes' = decodes \ {j}
          /\ recorder' = recorder
          /\ sourceBuffer' = sourceBuffer
          /\ ~isAnalyzing']_vars

\* The decode of a recording has just failed.
C7_Witness ==
    /\ effects =
         <<"alert: Failed to process recording. Please try again or upload a file.">>
    /\ file = RecFile
    /\ decodes = {}
    /\ ~isAnalyzing

\* C8: the auto-enhance continuation sets params to the suggestions merged
\* onto the ParameterSet current when it runs.
C8_EnhanceMergesOntoCurrent ==
    [][\A e \in EnhancesDone : params' = Merge(params, Analyze(e.buf))]_vars

\* C9: the analysis runs only in the auto-enhance continuation, never on
\* load or render, and auto-enhance changes neither the source nor any
\* render output.
C9_AnalysisOnlyOnAutoEnhance ==
    [][/\ "analyzeAudioBuffer" \in Range(effects') =>
              \/ EnhancesDone # {}
              \/ effects' = effects
       /\ enhances' # enhances =>
              UNCHANGED <<file, sourceBuffer, processedBlob, urlVars,
                          renders>>]_vars

\* The analysis has just run with a rendered output present.
C9_Witness ==
    /\ effects = <<"analyzeAudioBuffer">>
    /\ processedBlob # Null
    /\ sourceBuffer # 0
    /\ ~isAnalyzing

\* C10: every ParameterSet the built-in controls produce, in params and in
\* the history, has every bounded value inside its domain.
C10_ControlsStayInDomain ==
    /\ InDomain(params)
    /\ \A i \in DOMAIN history : InDomain(history[i])

\* Presets and sliders at their limits have been committed in sequence.
C10_Witness ==
    /\ Len(history) >= 3
    /\ params.vibratoDepth = 800
    /\ params.pitch = 1200
    /\ params = history[historyIndex + 1]

\* C11: the shift control is never populated.  Through sliders, built-in
\* presets, reset, undo, redo and presets the session itself saved and
\* loaded, shift keeps its initial value 0.0 in params, in every history
\* entry and in every saved preset.
C11_ShiftNeverPopulated ==
    /\ params.shift = INITIAL_PARAMS.shift
    /\ INITIAL_PARAMS.shift = 0
    /\ \A i \in DOMAIN history : history[i].shift = 0
    /\ \A i \in DOMAIN savedPresets : savedPresets[i].params.shift = 0

\* A preset saved by the session has been loaded back after a built-in
\* preset was applied.
C11_Witness ==
    /\ Len(savedPresets) >= 1
    /\ savedPresets[1].params # INITIAL_PARAMS
    /\ Len(history) >= 3
    /\ params = savedPresets[1].params
    /\ history[2] # params
    /\ history[2].ringMod = 60

\* C12: every ParameterSet the controls produce, and so every ParameterSet
\* handed to a render, has delayFeedback strictly below 1: no slider,
\* built-in preset, reset, undo, redo or preset saved and reloaded by the
\* session writes delayFeedback.
C12_DelayFeedbackBelowOne ==
    /\ RenderArgs.params.delayFeedback < 100
    /\ \A i \in DOMAIN history : history[i].delayFeedback < 100
    /\ \A i \in DOMAIN savedPresets :
          savedPresets[i].params.delayFeedback < 100

\* The delay has been switched fully on, saved as a preset and loaded back.
C12_Witness ==
    /\ params.delay = 100
    /\ params.delayFeedback = 30
    /\ Len(savedPresets) >= 1
    /\ savedPresets[1].params.delay = 100
    /\ historyIndex >= 2

\* C13: a render handed the default ParameterSet INITIAL_PARAMS is the
\* identity: its output has the duration and the samples of its input.
C13_DefaultRenderIsIdentity ==
    [][\A kind \in Kinds :
          (Succeeded(kind) /\ Val(renders[kind]).handed = INITIAL_PARAMS) =>
              LET out == Val(urlStore'[processedUrl'].blob)
              IN /\ OutputFrames(out) = Frames(out.src)
                 /\ SameSamples(out)]_vars

\* C14: renders called with the same buffer and the same ParameterSet
\* resolve with the same output, whether they ran one after the other or
\* together as preview and final render, and whatever the controls did
\* meanwhile.
C14_RenderDeterministic ==
    /\ \A a \in rendered : \A b \in rendered :
          (a.buf = b.buf /\ a.params = b.params) => a.out = b.out
    /\ \A a \in rendered : \A kind \in Kinds :
          (/\ renders[kind] # Null
           /\ Val(renders[kind]).buf = a.buf
           /\ Val(renders[kind]).handed = a.params) =>
              StageParams(Val(renders[kind])) = a.out.params

\* A preview and a final render called with the same buffer and ParameterSet
\* have both resolved after the controls were changed.
C14_Witness ==
    \E a \in rendered : \E b \in rendered :
        /\ a.kind = "preview" /\ b.kind = "final"
        /\ a.buf = b.buf /\ a.params = b.params
        /\ a.out = b.out
        /\ a.params # params
        /\ DraggedKeys = {}

\* C15: every render applies the effect stages in the one fixed order noise
\* reduction, de-essing, pitch/time-stretch, EQ, drive, vibrato, ring
\* modulation, backing vocals, delay, reverb, stereo widening, master reverb
\* send, master gain, whatever its ParameterSet and whatever the user did.
C15_StageOrderFixed ==
    /\ \A a \in rendered :
          a.out.chain =
            <<"noiseReduction", "deEssing", "pitchTimeStretch", "eq", "drive",
              "vibrato", "ringModulation", "backingVocals", "delay", "reverb",
              "stereoWidening", "masterReverbSend", "masterGain">>
    /\ \A kind \in Kinds : renders[kind] # Null =>
          StagesApplied(StageParams(Val(renders[kind]))) = StageOrder
    /\ \A u \in DOMAIN urlStore : urlStore[u].blob # Null =>
          Val(urlStore[u].blob).chain = StageOrder

\* Two renders with different ParameterSets, one of them with the pitch
\* changed, have resolved.
C15_Witness ==
    \E a \in rendered : \E b \in rendered :
        /\ a.out.params.pitch # 0
        /\ b.out.params.pitch = 0
        /\ a.out.chain = b.out.chain

\* C16: while a file is selected, a non-null processedBlob is a render of
\* that file's audio: a render started on an earlier source never becomes
\* the processed result of the current one.
C16_ProcessedBlobOfCurrentSource ==
    (processedBlob # Null /\ file # 0) => Val(processedBlob).src = file

\* C17: the URL handed to the player, when there is one, is not a revoked
\* object URL, whichever side of the compare switch is selected.
C17_ActiveUrlNeverRevoked ==
    ActiveUrl # 0 => ~urlStore[ActiveUrl].revoked

\* C18: whenever no decode is in flight, sourceBuffer is null or the decoded
\* audio of the selected file.
C18_SourceBufferOfCurrentFile ==
    decodes = {} => (sourceBuffer = 0 \/ sourceBuffer = file)

\* C19: a step that loads a new source (upload, recording stop) or clears
\* the source leaves processedBlob and processedUrl both null.
C19_NoResultAfterSourceChange ==
    [][(decodes' \ decodes # {} \/ (file # 0 /\ file' = 0)) =>
          (processedBlob' = Null /\ processedUrl' = 0)]_vars

\* C20: whenever processedBlob and processedUrl are both set, the audio
\* behind the URL is processedBlob.
C20_BlobAndUrlSameRender ==
    (processedBlob # Null /\ processedUrl # 0) =>
        urlStore[processedUrl].blob = processedBlob

\* C21: the history is never empty and the cursor always points at one of
\* its entries; undo with the cursor on the first entry and redo with the
\* cursor on the last entry leave params, history and cursor as they were.
C21_CursorInsideHistory ==
    /\ [](Len(history) >= 1 /\ historyIndex \in 0..(Len(history) - 1))
    /\ [][(HandleUndo /\ historyIndex = 0) => UNCHANGED histVars]_vars
    /\ [][(HandleRedo /\ historyIndex = Len(history) - 1)
            => UNCHANGED histVars]_vars

\* The cursor was taken back to the first entry of a full history whose
\* entries differ: undo is at its lower end and redo is available.
C21_Witness ==
    /\ historyIndex = 0
    /\ Len(history) = MaxHistory
    /\ history[2] # history[1]
    /\ params = history[1]

\* A step of an operation that commits: a slider released, a built-in
\* preset, a saved preset loaded, reset, an auto-enhance continuation.
CommitStep ==
    \/ \E kv \in AllSliderInputs : UpdateParam(kv[1], kv[2], TRUE)
    \/ \E n \in PresetNames : ApplyPreset(n)
    \/ \E i \in 1..Len(savedPresets) : HandleLoadPreset(i)
    \/ HandleReset
    \/ \E e \in enhances : AutoEnhanceDone(e)

\* Undo and redo as the toolbar offers them: each button is disabled at its
\* end of the history.
UndoStep == HandleUndo /\ historyIndex # 0
RedoStep == HandleRedo /\ historyIndex # Len(history) - 1

\* What handleRedo leaves in historyIndex and params when it runs in a state
\* with the given history, cursor and params.
AfterRedo(hist, idx, p) ==
    IF idx < Len(hist) - 1
    THEN [historyIndex |-> idx + 1, params |-> hist[idx + 2]]
    ELSE [historyIndex |-> idx, params |-> p]

\* After a commit, an undo or a redo, params is the entry under the cursor,
\* and after a commit the cursor is on the last entry.
ParamsUnderCursorAfterHistoryOps ==
    [][/\ (CommitStep \/ UndoStep \/ RedoStep)
            => params' = history'[historyIndex' + 1]
       /\ CommitStep => historyIndex' = Len(history') - 1]_vars

\* A redo pressed right after an undo brings params and the cursor back to
\* what they were before the undo.
UndoThenRedoRestores ==
    [][UndoStep =>
          AfterRedo(history', historyIndex', params')
              = [historyIndex |-> historyIndex, params |-> params]]_vars

\* C22: after every committing operation and after every undo or redo,
\* params equals history[historyIndex]; after a committing operation the
\* cursor is the last index; an undo immediately followed by a redo restores
\* params and historyIndex to their values before the undo.
C22_ParamsFollowCursor ==
    /\ ParamsUnderCursorAfterHistoryOps
    /\ UndoThenRedoRestores

\* The handleSaveToCloud calls whose saveTrackToCloud settles in this step.
SettledSaves == {s \in saves : s \notin saves' /\ s.track # Null}

\* C23: when openDB rejects, saveTrackToCloud puts the track in the
\* in-memory store and resolves; when the database opens and the put fails
\* the call rejects with the in-memory store unchanged, and handleSaveToCloud
\* alerts the failure once; either way isUploading is false afterwards.
C23_SaveFallsBackOrRejects ==
    [][\A s \in SettledSaves :
          LET r == Val(lastSave')
              i == FindIndex(memoryStore', r.track.id)
          IN /\ r.track = Val(s.track)
             /\ isUploading' = FALSE
             /\ Cardinality(Alerts(effects')) = 1
             /\ r.outcome = "unavailable" =>
                    /\ i >= 1
                    /\ memoryStore'[i] = r.track
                    /\ r.track \in savedTracks'
                    /\ effects' # <<"alert: Failed to save to library.">>
             /\ r.outcome = "putFailed" =>
                    /\ memoryStore' = memoryStore
                    /\ r.track \notin savedTracks'
                    /\ effects' = <<"alert: Failed to save to library.">>]_vars

\* A save made while IndexedDB could not be opened has resolved with its
\* track in the in-memory store, and a later save whose put failed has
\* been rejected and has left that store as it was.
C23_Witness ==
    /\ lastSave # Null
    /\ Val(lastSave).outcome = "putFailed"
    /\ Val(lastSave).memoryBefore = memoryStore
    /\ Len(memoryStore) = 1
    /\ memoryStore[1] \in savedTracks
    /\ Val(lastSave).track \notin savedTracks
    /\ idb = {}
    /\ effects = <<"alert: Failed to save to library.">>
    /\ ~isUploading
    /\ saves = {}

\* C24: a getCloudTracks call that resolves returns every track whose save
\* had resolved when the call was made, and the library view lists them,
\* whatever the availability of IndexedDB at the save and at the read.
C24_SavedTracksAreListed ==
    (lastRead # Null /\ Val(lastRead).tracks # Null) =>
        \A t \in Val(lastRead).saved :
            /\ t \in Range(Val(Val(lastRead).tracks))
            /\ t \in Range(posts)

\* C25: after any sequence of saveTrackToCloud calls, getCloudTracks served
\* by the fallback returns the same sequence of tracks as getCloudTracks
\* served by IndexedDB, tracks of equal date included.
C25_FallbackEquivalentToIdb ==
    TracksFromMemory(memoryStore) = TracksFromIdb(idb)

\* C26: the duration recorded with a saved track is the duration of its
\* processed audio: the source duration multiplied by the stretch of the
\* render.
C26_DurationOfProcessedAudio ==
    \A t \in savedTracks : t.duration = BlobDuration(t.blob)

====
